---- MODULE Spec2Model ----
(***************************************************************************)
(* A model of prepare_icon.py: the PNG decoder (read_png_rgba), the alpha  *)
(* bounds scan (find_alpha_bounds), the crop (crop_rows), the compositor   *)
(* (center_on_square), the PNG encoder (write_png_rgba) and the driver     *)
(* (main).                                                                 *)
(*                                                                         *)
(* Files and buffers are sequences of bytes 0..255.  Python's 0-based      *)
(* offset x is the 1-based index x + 1 of a sequence.  The margin ratio is *)
(* a fixed-point rational counted in thousandths (140 is 0.14), and the    *)
(* arithmetic on it is exact.                                              *)
(***************************************************************************)
EXTENDS Integers, Sequences, FiniteSets, TLC

VARIABLES
  argv,      \* sys.argv[1:], the positional arguments
  fs,        \* the file system: path -> [exists, bytes]
  pc,        \* position of the run
  exitCode,  \* process exit status, -1 while running
  err,       \* the exception that ended the run, "" for none
  done,      \* the stages that have completed, in order
  src,       \* main: src path
  dst,       \* main: dst path
  margin,    \* main: margin (thousandths)
  data,      \* read_png_rgba: data
  pos,       \* read_png_rgba: pos
  ihdr,      \* read_png_rgba: the unpacked IHDR tuple, <<>> for None
  idat,      \* read_png_rgba: idat_parts
  raw,       \* read_png_rgba: raw
  ri,        \* read_png_rgba: i
  prev,      \* read_png_rgba: prev
  rows,      \* read_png_rgba: rows
  img,       \* main: (w, h, rows)
  box,       \* main: (min_x, min_y, max_x, max_y)
  cropped,   \* main: cropped, cw, ch
  centered   \* main: out_w, out_h, centered

vars == <<argv, fs, pc, exitCode, err, done, src, dst, margin, data, pos, ihdr,
          idat, raw, ri, prev, rows, img, box, cropped, centered>>

(***************************************************************************)
(* Bytes and byte strings                                                  *)
(***************************************************************************)
Byte == 0..255

Max(a, b) == IF a >= b THEN a ELSE b

Min(a, b) == IF a <= b THEN a ELSE b

Abs(n) == IF n < 0 THEN -n ELSE n

Zeros(n) == [k \in 1..n |-> 0]

\* Python's s[a:b] for 0 <= a, 0 <= b: the bytes at offsets a..b-1 that exist.
Slice(s, a, b) == SubSeq(s, Min(a, Len(s)) + 1, Min(b, Len(s)))

RECURSIVE Concat(_)
Concat(parts) ==
  IF parts = <<>> THEN <<>> ELSE Head(parts) \o Concat(Tail(parts))

IsPrefix(p, s) == Len(p) <= Len(s) /\ \A k \in 1..Len(p) : s[k] = p[k]

PNG_SIG == <<137, 80, 78, 71, 13, 10, 26, 10>>

TagIHDR == <<73, 72, 68, 82>>

TagIDAT == <<73, 68, 65, 84>>

TagIEND == <<73, 69, 78, 68>>

\* struct.pack(">I", n)
PackU32(n) ==
  <<(n \div 16777216) % 256, (n \div 65536) % 256, (n \div 256) % 256, n % 256>>

\* struct.unpack(">I", b)[0] of exactly four bytes
UnpackU32(b) == b[1] * 16777216 + b[2] * 65536 + b[3] * 256 + b[4]

\* struct.pack(">IIBBBBB", ...)
PackIHDR(w, h, bd, ct, cm, fm, im) == PackU32(w) \o PackU32(h) \o <<bd, ct, cm, fm, im>>

\* struct.unpack(">IIBBBBB", b) of exactly thirteen bytes
UnpackIHDR(b) ==
  <<UnpackU32(Slice(b, 0, 4)), UnpackU32(Slice(b, 4, 8)), b[9], b[10], b[11], b[12], b[13]>>

(***************************************************************************)
(* zlib.crc32: CRC-32 (reflected, polynomial EDB88320), on 32 bits kept as *)
(* a sequence of 0/1 with the least significant bit first.                 *)
(***************************************************************************)
Xor(a, b) == (a + b) % 2

\* c >> 1
CrcShr(c) ==
  <<c[2], c[3], c[4], c[5], c[6], c[7], c[8], c[9],
    c[10], c[11], c[12], c[13], c[14], c[15], c[16], c[17],
    c[18], c[19], c[20], c[21], c[22], c[23], c[24], c[25],
    c[26], c[27], c[28], c[29], c[30], c[31], c[32], 0>>

\* s ^ 0xEDB88320
CrcXorPoly(s) ==
  <<s[1], s[2], s[3], s[4], s[5], 1 - s[6], s[7], s[8],
    1 - s[9], 1 - s[10], s[11], s[12], s[13], s[14], s[15], 1 - s[16],
    s[17], s[18], s[19], 1 - s[20], 1 - s[21], 1 - s[22], s[23], 1 - s[24],
    1 - s[25], s[26], 1 - s[27], 1 - s[28], s[29], 1 - s[30], 1 - s[31], 1 - s[32]>>

CrcShift(c) == IF c[1] = 1 THEN CrcXorPoly(CrcShr(c)) ELSE CrcShr(c)

RECURSIVE CrcRounds(_, _)
CrcRounds(c, n) == IF n = 0 THEN c ELSE CrcRounds(CrcShift(c), n - 1)

\* c ^ b on the low eight bits, then eight shift rounds
CrcByte(c, b) ==
  CrcRounds(
    <<Xor(c[1], b % 2), Xor(c[2], (b \div 2) % 2), Xor(c[3], (b \div 4) % 2),
      Xor(c[4], (b \div 8) % 2), Xor(c[5], (b \div 16) % 2), Xor(c[6], (b \div 32) % 2),
      Xor(c[7], (b \div 64) % 2), Xor(c[8], (b \div 128) % 2),
      c[9], c[10], c[11], c[12], c[13], c[14], c[15], c[16],
      c[17], c[18], c[19], c[20], c[21], c[22], c[23], c[24],
      c[25], c[26], c[27], c[28], c[29], c[30], c[31], c[32]>>, 8)

\* The register after bytes s[lo..hi] (lo <= hi), taken in order.  The range
\* is halved, and the first half evaluated before the second is entered, so
\* that the evaluation stays shallow on long inputs.
RECURSIVE CrcFold(_, _, _, _)
CrcFold(c, s, lo, hi) ==
  IF lo = hi THEN CrcByte(c, s[lo])
  ELSE LET mid == (lo + hi) \div 2
           left == CrcFold(c, s, lo, mid)
       IN  IF Len(left) = 32 THEN CrcFold(left, s, mid + 1, hi) ELSE left

\* the byte of bits base+1..base+8 of the complement of c
CrcOutByte(c, base) ==
  (1 - c[base + 1]) + 2 * (1 - c[base + 2]) + 4 * (1 - c[base + 3])
  + 8 * (1 - c[base + 4]) + 16 * (1 - c[base + 5]) + 32 * (1 - c[base + 6])
  + 64 * (1 - c[base + 7]) + 128 * (1 - c[base + 8])

CrcInit ==
  <<1, 1, 1, 1, 1, 1, 1, 1, 1, 1, 1, 1, 1, 1, 1, 1,
    1, 1, 1, 1, 1, 1, 1, 1, 1, 1, 1, 1, 1, 1, 1, 1>>

\* struct.pack(">I", zlib.crc32(s) & 0xFFFFFFFF): the four bytes, big-endian
Crc32Bytes(s) ==
  LET c == IF s = <<>> THEN CrcInit ELSE CrcFold(CrcInit, s, 1, Len(s))
  IN  <<CrcOutByte(c, 24), CrcOutByte(c, 16), CrcOutByte(c, 8), CrcOutByte(c, 0)>>

(***************************************************************************)
(* zlib.compress / zlib.decompress.  The compressed form is a zlib stream  *)
(* (RFC 1950) holding one final stored block (RFC 1951, BTYPE 00): the     *)
(* two-byte header, 01, LEN, NLEN (little-endian), the bytes, Adler-32.    *)
(* The decompressor accepts exactly such streams, ignores what follows the *)
(* checksum as zlib.decompress does, and raises zlib.error otherwise.      *)
(***************************************************************************)
\* The pair <<a, b>> of Adler-32 after bytes s[lo..hi] (lo <= hi), in order
RECURSIVE AdlerFold(_, _, _, _)
AdlerFold(ab, s, lo, hi) ==
  IF lo = hi
  THEN LET a2 == (ab[1] + s[lo]) % 65521
       IN  <<a2, (ab[2] + a2) % 65521>>
  ELSE LET mid == (lo + hi) \div 2
           left == AdlerFold(ab, s, lo, mid)
       IN  IF Len(left) = 2 THEN AdlerFold(left, s, mid + 1, hi) ELSE left

\* struct.pack(">I", zlib.adler32(s))
Adler32Bytes(s) ==
  LET ab == IF s = <<>> THEN <<1, 0>> ELSE AdlerFold(<<1, 0>>, s, 1, Len(s))
  IN  <<ab[2] \div 256, ab[2] % 256, ab[1] \div 256, ab[1] % 256>>

ZCompress(s) ==
  LET n == Len(s)
  IN  <<120, 218, 1, n % 256, n \div 256, 255 - (n % 256), 255 - (n \div 256)>>
      \o s \o Adler32Bytes(s)

\* [ok |-> TRUE, bytes |-> the inflated stream] or [ok |-> FALSE, bytes |-> <<>>]
ZDecompress(c) ==
  LET bad == [ok |-> FALSE, bytes |-> <<>>]
  IN  IF Len(c) < 7 THEN bad
      ELSE IF c[1] % 16 # 8 \/ (c[1] * 256 + c[2]) % 31 # 0 \/ (c[2] \div 32) % 2 # 0
      THEN bad
      ELSE IF c[3] # 1 \/ c[4] + c[6] # 255 \/ c[5] + c[7] # 255 THEN bad
      ELSE LET n == c[4] + 256 * c[5]
               body == Slice(c, 7, 7 + n)
           IN  IF Len(c) < 7 + n + 4 THEN bad
               ELSE IF Slice(c, 7 + n, 7 + n + 4) # Adler32Bytes(body) THEN bad
               ELSE [ok |-> TRUE, bytes |-> body]

(***************************************************************************)
(* read_png_rgba                                                           *)
(***************************************************************************)
\* paeth with its last two results exchanged
paeth_swapped(a, b, c) ==
  LET p == a + b - c
      pa == Abs(p - a)
      pb == Abs(p - b)
      pc_ == Abs(p - c)
  IN  IF pa <= pb /\ pa <= pc_ THEN a
      ELSE IF pb <= pc_ THEN c
      ELSE b

paeth(a, b, c) ==
  LET p == a + b - c
      pa == Abs(p - a)
      pb == Abs(p - b)
      pc_ == Abs(p - c)
  IN  IF pa <= pb /\ pa <= pc_ THEN a
      ELSE IF pb <= pc_ THEN b
      ELSE c

\* One pass of "for x in range(stride)" for filter f, on the row as it is
\* mutated in place: offsets below x hold reconstructed bytes already.
RECURSIVE FilterLoop(_, _, _, _, _, _)
FilterLoop(f, row, prevRow, bpp, stride, x) ==
  IF x >= stride THEN row
  ELSE LET left == IF x >= bpp THEN row[x - bpp + 1] ELSE 0
           up == prevRow[x + 1]
           upleft == IF x >= bpp THEN prevRow[x - bpp + 1] ELSE 0
           add == CASE f = 1 -> left
                    [] f = 2 -> up
                    [] f = 3 -> (left + up) \div 2
                    [] f = 4 -> paeth(left, up, upleft)
       IN  FilterLoop(f, [row EXCEPT ![x + 1] = (row[x + 1] + add) % 256],
                      prevRow, bpp, stride, x + 1)

\* The body of "for _ in range(height)" after the row is sliced out of raw:
\* [ok, err, row].  A row shorter than stride is indexed past its end by the
\* loops of filters 1..4 (IndexError) and is left as it is by filter 0.
UnfilterRow(f, row, prevRow, bpp, stride) ==
  IF f \in 1..4
  THEN IF Len(row) < stride
       THEN [ok |-> FALSE, err |-> "IndexError", row |-> row]
       ELSE [ok |-> TRUE, err |-> "", row |-> FilterLoop(f, row, prevRow, bpp, stride, 0)]
  ELSE IF f # 0
       THEN [ok |-> FALSE, err |-> "ValueError: Unsupported PNG filter type", row |-> row]
       ELSE [ok |-> TRUE, err |-> "", row |-> row]

\* The RGB to RGBA loop body for one row of width pixels
ExpandRow(row, width) ==
  [k \in 1..(width * 4) |->
     IF (k - 1) % 4 = 3 THEN 255 ELSE row[((k - 1) \div 4) * 3 + ((k - 1) % 4) + 1]]

(***************************************************************************)
(* find_alpha_bounds, crop_rows, center_on_square, write_png_rgba          *)
(***************************************************************************)
\* The scan with "a == 255" for "a > 0": faint pixels are passed over
RECURSIVE AlphaScanOpaqueOnly(_, _, _, _, _)
AlphaScanOpaqueOnly(width, height, rws, k, acc) ==
  IF k >= width * height THEN acc
  ELSE LET x == k % width
           y == k \div width
           a == rws[y + 1][x * 4 + 3 + 1]
       IN  AlphaScanOpaqueOnly(width, height, rws, k + 1,
             IF a = 255
             THEN <<Min(acc[1], x), Min(acc[2], y), Max(acc[3], x), Max(acc[4], y)>>
             ELSE acc)

\* The two nested loops of find_alpha_bounds, pixel k = y * width + x, on
\* the running <<min_x, min_y, max_x, max_y>>
RECURSIVE AlphaScan(_, _, _, _, _)
AlphaScan(width, height, rws, k, acc) ==
  IF k >= width * height THEN acc
  ELSE LET x == k % width
           y == k \div width
           a == rws[y + 1][x * 4 + 3 + 1]
       IN  AlphaScan(width, height, rws, k + 1,
             IF a > 0
             THEN <<Min(acc[1], x), Min(acc[2], y), Max(acc[3], x), Max(acc[4], y)>>
             ELSE acc)

find_alpha_bounds(width, height, rws) ==
  LET acc == AlphaScan(width, height, rws, 0, <<width, height, -1, -1>>)
  IN  IF acc[3] = -1 THEN <<0, 0, width - 1, height - 1>> ELSE acc

crop_rows(rws, min_x, min_y, max_x, max_y) ==
  [k \in 1..Max(0, max_y + 1 - min_y) |->
     Slice(rws[min_y + k], min_x * 4, (max_x + 1) * 4)]

\* The clamp with a lower end of 0.05 for 0.1
ScaleAreaLow(margin_ratio) == Max(50, Min(950, 1000 - (2 * margin_ratio)))

\* max(0.1, min(0.95, 1.0 - (2 * margin_ratio))), in thousandths
ScaleArea(margin_ratio) == Max(100, Min(950, 1000 - (2 * margin_ratio)))

\* int(math.ceil(side / scale_area)) for side >= 0, scale_area in thousandths
CeilDiv(side, scale_area) == (side * 1000 + scale_area - 1) \div scale_area

CanvasSide(content_w, content_h, margin_ratio) ==
  LET side == Max(content_w, content_h)
  IN  Max(CeilDiv(side, ScaleArea(margin_ratio)), side)

\* dst[start : start + n] = s on a bytearray
SliceAssign(d, start, n, s) ==
  LET lo == Min(start, Len(d))
      hi == Max(lo, Min(start + n, Len(d)))
  IN  SubSeq(d, 1, lo) \o s \o SubSeq(d, hi + 1, Len(d))

\* The offset rounded up: the odd remainder goes to the left
XOffCeil(canvas, content_w) == (canvas - content_w + 1) \div 2

XOff(canvas, content_w) == (canvas - content_w) \div 2

YOff(canvas, content_h) == (canvas - content_h) \div 2

\* "for y in range(content_h)": row y of the content goes into out[y + y_off]
RECURSIVE CenterLoop(_, _, _, _, _, _)
CenterLoop(out, rws, content_h, x_off, y_off, y) ==
  IF y >= content_h THEN out
  ELSE CenterLoop(
         [out EXCEPT ![y + y_off + 1] =
            SliceAssign(@, x_off * 4, Len(rws[y + 1]), rws[y + 1])],
         rws, content_h, x_off, y_off, y + 1)

center_on_square(rws, content_w, content_h, margin_ratio) ==
  LET canvas == CanvasSide(content_w, content_h, margin_ratio)
      x_off == XOff(canvas, content_w)
      y_off == YOff(canvas, content_h)
      blank == [r \in 1..canvas |-> Zeros(canvas * 4)]
  IN  [width |-> canvas, height |-> canvas,
       rows |-> CenterLoop(blank, rws, content_h, x_off, y_off, 0)]

\* chunk(tag, payload) of write_png_rgba
chunk(tag, payload) ==
  PackU32(Len(payload)) \o tag \o payload \o Crc32Bytes(tag \o payload)

\* The stream with filter byte 1 (Sub) before rows that are not filtered
RECURSIVE RawStreamSub(_, _)
RawStreamSub(rws, k) ==
  IF k > Len(rws) THEN <<>> ELSE <<1>> \o rws[k] \o RawStreamSub(rws, k + 1)

RECURSIVE RawStream(_, _)
RawStream(rws, k) ==
  IF k > Len(rws) THEN <<>> ELSE <<0>> \o rws[k] \o RawStream(rws, k + 1)

\* The bytes write_png_rgba hands to path.write_bytes
PngBytes(width, height, rws) ==
  PNG_SIG
  \o chunk(TagIHDR, PackIHDR(width, height, 8, 6, 0, 0, 0))
  \o chunk(TagIDAT, ZCompress(RawStream(rws, 1)))
  \o chunk(TagIEND, <<>>)

(***************************************************************************)
(* The run: main, with read_png_rgba taken one loop iteration at a time.   *)
(* An uncaught exception, like sys.exit(1), ends the process with status 1.*)
(***************************************************************************)
NoFile == [exists |-> FALSE, bytes |-> <<>>]

File(b) == [exists |-> TRUE, bytes |-> b]

None == [set |-> FALSE]

decodeVars == <<data, pos, ihdr, idat, raw, ri, prev, rows>>

mainVars == <<argv, src, dst, margin>>

resultVars == <<img, box, cropped, centered>>

\* The exit status of a run that ends in an uncaught exception or sys.exit(1)
FailStatus == 1

Raise(e) ==
  /\ pc' = "failed"
  /\ exitCode' = FailStatus
  /\ err' = e

Continue(next) ==
  /\ pc' = next
  /\ UNCHANGED <<exitCode, err>>

\* float(sys.argv[3]) on the argument texts the model draws from
ParseFloat(text) ==
  CASE text = "0.14" -> [ok |-> TRUE, value |-> 140]
    [] text = "0.0" -> [ok |-> TRUE, value |-> 0]
    [] text = "0.25" -> [ok |-> TRUE, value |-> 250]
    [] text = "0.475" -> [ok |-> TRUE, value |-> 475]
    [] text = "0.6" -> [ok |-> TRUE, value |-> 600]
    [] text = "-1.0" -> [ok |-> TRUE, value |-> -1000]
    [] OTHER -> [ok |-> FALSE, value |-> 0]

\* main, lines 191-197
ParseArgs ==
  /\ pc = "start"
  /\ IF Len(argv) \notin {2, 3}
     THEN Raise("usage") /\ UNCHANGED <<src, dst, margin>>
     ELSE LET m == IF Len(argv) = 3 THEN ParseFloat(argv[3])
                   ELSE [ok |-> TRUE, value |-> 140]
          IN  /\ src' = argv[1]
              /\ dst' = argv[2]
              /\ IF m.ok
                 THEN margin' = m.value /\ Continue("read")
                 ELSE margin' = margin /\ Raise("ValueError: could not convert string to float")
  /\ UNCHANGED <<argv, fs, done, decodeVars, resultVars>>

\* ReadFile that also opens the output file for writing, emptying it
ReadFileOpeningOutput ==
  /\ pc = "read"
  /\ IF ~fs[src].exists
     THEN Raise("FileNotFoundError") /\ UNCHANGED <<data, pos>>
     ELSE /\ data' = fs[src].bytes
          /\ IF IsPrefix(PNG_SIG, fs[src].bytes)
             THEN pos' = Len(PNG_SIG) /\ Continue("walk")
             ELSE pos' = pos /\ Raise("ValueError: Input is not a PNG file.")
  /\ ihdr' = <<>>
  /\ idat' = <<>>
  /\ fs' = [fs EXCEPT ![dst] = File(<<>>)]
  /\ UNCHANGED <<done, mainVars, raw, ri, prev, rows, resultVars>>

\* read_png_rgba, lines 26-33
ReadFile ==
  /\ pc = "read"
  /\ IF ~fs[src].exists
     THEN Raise("FileNotFoundError") /\ UNCHANGED <<data, pos>>
     ELSE /\ data' = fs[src].bytes
          /\ IF IsPrefix(PNG_SIG, fs[src].bytes)
             THEN pos' = Len(PNG_SIG) /\ Continue("walk")
             ELSE pos' = pos /\ Raise("ValueError: Input is not a PNG file.")
  /\ ihdr' = <<>>
  /\ idat' = <<>>
  /\ UNCHANGED <<fs, done, mainVars, raw, ri, prev, rows, resultVars>>

\* read_png_rgba, one iteration of the while loop, lines 35-52
ReadChunk ==
  /\ pc = "walk"
  /\ pos < Len(data)
  /\ IF pos + 8 > Len(data)
     THEN Raise("ValueError: Invalid PNG structure.") /\ UNCHANGED <<pos, ihdr, idat>>
     ELSE LET length == UnpackU32(Slice(data, pos, pos + 4))
              ctype == Slice(data, pos + 4, pos + 8)
              start == pos + 8
              end == start + length
              chunk_data == Slice(data, start, end)
          IN  /\ pos' = end + 4
              /\ IF ctype = TagIHDR
                 THEN IF Len(chunk_data) # 13
                      THEN Raise("struct.error") /\ UNCHANGED <<ihdr, idat>>
                      ELSE /\ ihdr' = UnpackIHDR(chunk_data)
                           /\ idat' = idat
                           /\ Continue("walk")
                 ELSE IF ctype = TagIDAT
                 THEN /\ idat' = Append(idat, chunk_data)
                      /\ ihdr' = ihdr
                      /\ Continue("walk")
                 ELSE IF ctype = TagIEND
                 THEN Continue("check") /\ UNCHANGED <<ihdr, idat>>
                 ELSE Continue("walk") /\ UNCHANGED <<ihdr, idat>>
  /\ UNCHANGED <<fs, done, mainVars, data, raw, ri, prev, rows, resultVars>>

\* read_png_rgba after the loop (left by pos >= len(data) or at IEND), lines 54-68
CheckHeader ==
  /\ IF pc = "walk" THEN pos >= Len(data) ELSE pc = "check"
  /\ IF ihdr = <<>>
     THEN Raise("ValueError: Missing IHDR.") /\ UNCHANGED <<raw, ri, prev, rows>>
     ELSE IF ihdr[3] # 8
     THEN Raise("ValueError: Only 8-bit PNG files are supported.")
          /\ UNCHANGED <<raw, ri, prev, rows>>
     ELSE IF ihdr[4] \notin {6, 2}
     THEN Raise("ValueError: Only RGB/RGBA PNG files are supported.")
          /\ UNCHANGED <<raw, ri, prev, rows>>
     ELSE LET z == ZDecompress(Concat(idat))
              bpp == IF ihdr[4] = 6 THEN 4 ELSE 3
          IN  IF ~z.ok
              THEN Raise("zlib.error") /\ UNCHANGED <<raw, ri, prev, rows>>
              ELSE /\ raw' = z.bytes
                   /\ ri' = 0
                   /\ prev' = Zeros(ihdr[1] * bpp)
                   /\ rows' = <<>>
                   /\ Continue("scan")
  /\ UNCHANGED <<fs, done, mainVars, data, pos, ihdr, idat, resultVars>>

\* read_png_rgba, one iteration of "for _ in range(height)", lines 70-98
ReadScanline ==
  /\ pc = "scan"
  /\ Len(rows) < ihdr[2]
  /\ LET bpp == IF ihdr[4] = 6 THEN 4 ELSE 3
         stride == ihdr[1] * bpp
     IN  IF ri >= Len(raw)
         THEN Raise("IndexError") /\ UNCHANGED <<ri, prev, rows>>
         ELSE LET r == UnfilterRow(raw[ri + 1], Slice(raw, ri + 1, ri + 1 + stride),
                                   prev, bpp, stride)
              IN  IF ~r.ok
                  THEN Raise(r.err) /\ UNCHANGED <<ri, prev, rows>>
                  ELSE /\ ri' = ri + 1 + stride
                       /\ prev' = r.row
                       /\ rows' = Append(rows, r.row)
                       /\ Continue("scan")
  /\ UNCHANGED <<fs, done, mainVars, data, pos, ihdr, idat, raw, resultVars>>

\* read_png_rgba, lines 100-115, and its return to main, line 199
ReadReturn ==
  /\ pc = "scan"
  /\ Len(rows) = ihdr[2]
  /\ IF ihdr[4] = 6
     THEN /\ img' = [set |-> TRUE, width |-> ihdr[1], height |-> ihdr[2], rows |-> rows]
          /\ done' = Append(done, "decode")
          /\ Continue("bounds")
     ELSE IF \E k \in 1..Len(rows) : Len(rows[k]) < ihdr[1] * 3
     THEN Raise("IndexError") /\ UNCHANGED <<img, done>>
     ELSE /\ img' = [set |-> TRUE, width |-> ihdr[1], height |-> ihdr[2],
                     rows |-> [k \in 1..Len(rows) |-> ExpandRow(rows[k], ihdr[1])]]
          /\ done' = Append(done, "decode")
          /\ Continue("bounds")
  /\ UNCHANGED <<fs, mainVars, decodeVars, box, cropped, centered>>

\* main, line 200
FindBounds ==
  /\ pc = "bounds"
  /\ IF \E y \in 1..img.height : Len(img.rows[y]) < img.width * 4
     THEN Raise("IndexError") /\ UNCHANGED <<box, done>>
     ELSE /\ box' = find_alpha_bounds(img.width, img.height, img.rows)
          /\ done' = Append(done, "bounds")
          /\ Continue("crop")
  /\ UNCHANGED <<fs, mainVars, decodeVars, img, cropped, centered>>

\* main, lines 201-203
CropRows ==
  /\ pc = "crop"
  /\ cropped' = [set |-> TRUE,
                 rows |-> crop_rows(img.rows, box[1], box[2], box[3], box[4]),
                 cw |-> box[3] - box[1] + 1,
                 ch |-> box[4] - box[2] + 1]
  /\ done' = Append(done, "crop")
  /\ Continue("center")
  /\ UNCHANGED <<fs, mainVars, decodeVars, img, box, centered>>

\* main, line 204
CenterOnSquare ==
  /\ pc = "center"
  /\ centered' = [set |-> TRUE] @@ center_on_square(cropped.rows, cropped.cw, cropped.ch, margin)
  /\ done' = Append(done, "composite")
  /\ Continue("write")
  /\ UNCHANGED <<fs, mainVars, decodeVars, img, box, cropped>>

\* main, line 205: write_png_rgba, lines 167-187
WritePng ==
  /\ pc = "write"
  /\ fs' = [fs EXCEPT ![dst] = File(PngBytes(centered.width, centered.height, centered.rows))]
  /\ done' = Append(done, "write")
  /\ Continue("print")
  /\ UNCHANGED <<mainVars, decodeVars, resultVars>>

\* main, line 206, and the normal end of the process
PrintDone ==
  /\ pc = "print"
  /\ pc' = "done"
  /\ exitCode' = 0
  /\ UNCHANGED <<err, fs, done, mainVars, decodeVars, resultVars>>

(***************************************************************************)
(* The inputs of a run: the argument lists and the input files.            *)
(***************************************************************************)
\* The largest width and height of the images the input files hold
MaxDim == 2

Paths == {"a.png", "b.png"}

ArgLists ==
  { <<"a.png", "b.png">>, <<"a.png", "b.png", "0.0">>, <<"a.png", "b.png", "0.25">>,
    <<"a.png", "b.png", "abc">>, <<"a.png", "a.png">>, <<"b.png", "a.png">>,
    <<"a.png">>, <<"a.png", "b.png", "0.14", "extra">> }

Variants == {"all", "none", "diag", "first", "last", "faint"}

\* Pixel (x, y) of the test image of variant v: four bytes, alpha last
PatternPixel(x, y, v) ==
  LET on == CASE v = "all" -> TRUE
              [] v = "none" -> FALSE
              [] v = "diag" -> x = y
              [] v = "first" -> x = 0 /\ y = 0
              [] v = "last" -> x = MaxDim - 1 \/ y = MaxDim - 1
              [] OTHER -> (x + y) % 2 = 1
  IN  <<(60 * x + 25 * y + 10) % 256, 128 + x, 255 - y,
        IF ~on THEN 0 ELSE IF v = "faint" THEN 1 ELSE 255>>

\* Row y of the pattern with bpp bytes per pixel
PatternRow(w, y, v, bpp) ==
  [k \in 1..(w * bpp) |-> PatternPixel((k - 1) \div bpp, y, v)[((k - 1) % bpp) + 1]]

\* A scanline stream: each row after the filter byte f
RECURSIVE PatternRaw(_, _, _, _, _, _)
PatternRaw(w, h, v, bpp, f, y) ==
  IF y >= h THEN <<>>
  ELSE <<f>> \o PatternRow(w, y, v, bpp) \o PatternRaw(w, h, v, bpp, f, y + 1)

\* A chunk of an input file; its four CRC bytes are arbitrary (here zero)
InChunk(tag, payload) == PackU32(Len(payload)) \o tag \o payload \o <<0, 0, 0, 0>>

TagTEXT == <<116, 69, 88, 116>>

InPng(hdr, zdata) ==
  PNG_SIG \o InChunk(TagIHDR, hdr) \o InChunk(TagIDAT, zdata) \o InChunk(TagIEND, <<>>)

\* Well-formed files: RGBA and RGB, every filter type
GoodFiles ==
  { InPng(PackIHDR(w, h, 8, ct, 0, 0, 0),
          ZCompress(PatternRaw(w, h, v, IF ct = 6 THEN 4 ELSE 3, f, 0))) :
      w \in 1..MaxDim, h \in 1..MaxDim, v \in Variants, ct \in {6, 2}, f \in 0..4 }

BaseRaw == PatternRaw(2, 2, "diag", 4, 0, 0)

BaseHdr == PackIHDR(2, 2, 8, 6, 0, 0, 0)

BaseFile == PngBytes(2, 2, <<PatternRow(2, 0, "diag", 4), PatternRow(2, 1, "diag", 4)>>)

\* Every proper prefix of a file the encoder wrote
TruncatedFiles == { SubSeq(BaseFile, 1, n) : n \in 0..(Len(BaseFile) - 1) }

\* Headers the decoder has to judge, each with a stream that fits the declared size
HeaderFiles ==
  { InPng(PackIHDR(2, 2, bd, ct, 0, 0, 0), ZCompress(BaseRaw)) :
      bd \in {1, 8, 16}, ct \in {0, 2, 3, 4, 6} }
  \cup { InPng(PackIHDR(w, h, 8, 6, m[1], m[2], m[3]),
               ZCompress(PatternRaw(w, h, "all", 4, 0, 0))) :
           w \in 1..MaxDim, h \in 1..MaxDim,
           m \in {<<1, 0, 0>>, <<0, 1, 0>>, <<0, 0, 1>>, <<1, 1, 1>>} }
  \cup { InPng(PackIHDR(w, h, 8, ct, 0, 0, 0),
               ZCompress(PatternRaw(w, h, "all", IF ct = 6 THEN 4 ELSE 3, f, 0))) :
           w \in 0..MaxDim, h \in 0..MaxDim, ct \in {6, 2}, f \in {0, 1} }

\* Streams that do not hold height * (1 + stride) bytes, bad filter bytes, bad zlib data
StreamFiles ==
  { InPng(PackIHDR(w, h, 8, ct, 0, 0, 0), ZCompress(SubSeq(BaseRaw, 1, n))) :
      w \in 1..(MaxDim + 1), h \in 1..(MaxDim + 1), ct \in {6, 2}, n \in {9, 10, 14, 18} }
  \cup { InPng(BaseHdr, ZCompress(PatternRaw(2, 2, "all", 4, f, 0))) : f \in {5, 255} }
  \cup { InPng(BaseHdr, z) :
           z \in { <<>>, <<1, 2, 3>>, Tail(ZCompress(BaseRaw)),
                   SubSeq(ZCompress(BaseRaw), 1, Len(ZCompress(BaseRaw)) - 1),
                   [ZCompress(BaseRaw) EXCEPT ![Len(ZCompress(BaseRaw))] = (@ + 1) % 256],
                   ZCompress(BaseRaw) \o <<7, 7>> } }

\* Chunk orders and chunk lengths
LayoutFiles ==
  LET H == InChunk(TagIHDR, BaseHdr)
      H1 == InChunk(TagIHDR, PackIHDR(1, 1, 8, 6, 0, 0, 0))
      Z == ZCompress(BaseRaw)
      D == InChunk(TagIDAT, Z)
      D1 == InChunk(TagIDAT, SubSeq(Z, 1, 10))
      D2 == InChunk(TagIDAT, SubSeq(Z, 11, Len(Z)))
      E == InChunk(TagIEND, <<>>)
      T == InChunk(TagTEXT, <<65, 0, 66>>)
      Long == PackU32(Len(Z) + 9) \o TagIDAT \o Z
  IN  { PNG_SIG \o Concat(cs) :
          cs \in { <<H, D, E>>, <<D, H, E>>, <<D, E>>, <<E>>, <<H, E>>, <<>>,
                   <<H1, H, D, E>>, <<H, H1, D, E>>, <<H, D, H1, E>>,
                   <<H, D1, D2, E>>, <<H, D2, D1, E>>, <<H, D1, T, D2, E>>,
                   <<H, T, D, E>>, <<H, D>>, <<H, D, E, <<1, 2, 3>>>>, <<H, D, E, D>>,
                   <<H, Long>>, <<H, Long, <<0, 0>>>>,
                   <<InChunk(TagIHDR, SubSeq(BaseHdr, 1, 12)), D, E>>,
                   <<InChunk(TagIHDR, BaseHdr \o <<0>>), D, E>>,
                   <<H, D, <<0, 0, 0>>>>, <<SubSeq(H, 1, 20)>> } }
      \cup { <<>>, SubSeq(PNG_SIG, 1, 7), [PNG_SIG EXCEPT ![1] = 0] \o H \o D \o E }

InputFiles == GoodFiles \cup TruncatedFiles \cup HeaderFiles \cup StreamFiles \cup LayoutFiles

Init ==
  /\ argv \in ArgLists
  /\ \E f \in InputFiles : fs = [p \in Paths |-> IF p = "a.png" THEN File(f) ELSE NoFile]
  /\ pc = "start"
  /\ exitCode = -1
  /\ err = ""
  /\ done = <<>>
  /\ src = ""
  /\ dst = ""
  /\ margin = 0
  /\ data = <<>>
  /\ pos = 0
  /\ ihdr = <<>>
  /\ idat = <<>>
  /\ raw = <<>>
  /\ ri = 0
  /\ prev = <<>>
  /\ rows = <<>>
  /\ img = None
  /\ box = <<>>
  /\ cropped = None
  /\ centered = None

Next ==
  \/ ParseArgs
  \/ ReadFile
  \/ ReadChunk
  \/ CheckHeader
  \/ ReadScanline
  \/ ReadReturn
  \/ FindBounds
  \/ CropRows
  \/ CenterOnSquare
  \/ WritePng
  \/ PrintDone

Spec == Init /\ [][Next]_vars

(***************************************************************************)
(* Scanline reconstruction on its own: the decoder from the point where    *)
(* the stream is inflated, on streams of every filter type.                *)
(***************************************************************************)
\* The largest width and height of the streams reconstructed
ReconMaxDim == 2

ReconSeeds == {3, 77, 131, 250}

\* A filtered scanline of n bytes, spread over 0..255 by the seed
SeedRow(n, seed, y) == [k \in 1..n |-> (seed * (k + y) + 29 * k * k + 101 * y) % 256]

\* The streams of h records for rows of n bytes; seeds and filters are per record
RECURSIVE ReconStreams(_, _)
ReconStreams(n, h) ==
  IF h = 0 THEN {<<>>}
  ELSE { s \o <<f>> \o SeedRow(n, seed, h) :
           s \in ReconStreams(n, h - 1), f \in 0..4, seed \in ReconSeeds }

InitRecon ==
  /\ \E w \in 1..ReconMaxDim, h \in 1..ReconMaxDim, ct \in {6, 2} :
       /\ ihdr = <<w, h, 8, ct, 0, 0, 0>>
       /\ raw \in ReconStreams(w * (IF ct = 6 THEN 4 ELSE 3), h)
       /\ prev = Zeros(w * (IF ct = 6 THEN 4 ELSE 3))
  /\ argv = <<"a.png", "b.png">>
  /\ fs = [p \in Paths |-> NoFile]
  /\ pc = "scan"
  /\ exitCode = -1
  /\ err = ""
  /\ done = <<>>
  /\ src = "a.png"
  /\ dst = "b.png"
  /\ margin = 140
  /\ data = <<>>
  /\ pos = 0
  /\ idat = <<>>
  /\ ri = 0
  /\ rows = <<>>
  /\ img = None
  /\ box = <<>>
  /\ cropped = None
  /\ centered = None

NextRecon == ReadScanline \/ ReadReturn

SpecRecon == InitRecon /\ [][NextRecon]_vars

(***************************************************************************)
(* C1                                                                      *)
(***************************************************************************)
\* The predictor as the claim words it: with p = a + b - c, a when it is no
\* farther from p than b and than c, else b when no farther than c, else c
RefPaeth(a, b, c) ==
  LET p == a + b - c
      da == IF p >= a THEN p - a ELSE a - p
      db == IF p >= b THEN p - b ELSE b - p
      dc == IF p >= c THEN p - c ELSE c - p
  IN  CASE da <= db /\ da <= dc -> a
        [] ~(da <= db /\ da <= dc) /\ db <= dc -> b
        [] OTHER -> c

\* The reference reconstruction of one scanline, byte by byte from the left
RECURSIVE RefRecon(_, _, _, _, _)
RefRecon(f, filtered, above, bpp, n) ==
  IF n = 0 THEN <<>>
  ELSE LET before == RefRecon(f, filtered, above, bpp, n - 1)
           left == IF n - 1 < bpp THEN 0 ELSE before[n - bpp]
           upper_left == IF n - 1 < bpp THEN 0 ELSE above[n - bpp]
           pred == CASE f = 0 -> 0
                     [] f = 1 -> left
                     [] f = 2 -> above[n]
                     [] f = 3 -> (left + above[n]) \div 2
                     [] f = 4 -> RefPaeth(left, above[n], upper_left)
       IN  Append(before, (filtered[n] + pred) % 256)

ReconBpp == IF ihdr[4] = 6 THEN 4 ELSE 3

ReconStride == ihdr[1] * ReconBpp

\* Record k of the inflated stream: its filter byte and its filtered bytes
RecordFilter(k) == raw[(k - 1) * (1 + ReconStride) + 1]

RecordBytes(k) ==
  SubSeq(raw, (k - 1) * (1 + ReconStride) + 2, k * (1 + ReconStride))

\* C1: every scanline the decoder has reconstructed equals the reference
\* reconstruction (None, Sub, Up, Average, Paeth, modulo 256) of its filtered
\* bytes against the previous reconstructed row, all-zero for the first.
C1_ReconstructionMatchesReference ==
  (pc = "scan" /\ ihdr # <<>> /\ ihdr[3] = 8 /\ ihdr[4] \in {6, 2}) =>
    \A k \in 1..Len(rows) :
      (RecordFilter(k) \in 0..4 /\ Len(RecordBytes(k)) = ReconStride) =>
        rows[k] = RefRecon(RecordFilter(k), RecordBytes(k),
                           IF k = 1 THEN Zeros(ReconStride) ELSE rows[k - 1],
                           ReconBpp, ReconStride)

\* A second scanline under Paeth whose predictor is the upper-left byte
\* somewhere and whose sum wraps past 255 somewhere
C1_Witness ==
  /\ pc = "scan"
  /\ Len(rows) = 2
  /\ ihdr[1] = 2
  /\ RecordFilter(2) = 4
  /\ \E x \in (ReconBpp + 1)..ReconStride :
       /\ RefPaeth(rows[2][x - ReconBpp], rows[1][x], rows[1][x - ReconBpp])
            = rows[1][x - ReconBpp]
       /\ rows[1][x - ReconBpp] # rows[1][x]
       /\ rows[1][x - ReconBpp] # rows[2][x - ReconBpp]
  /\ \E x \in 1..ReconStride : rows[2][x] < RecordBytes(2)[x]

(***************************************************************************)
(* The alpha bounds scan on its own: main from line 200, on every image of *)
(* transparent and non-transparent pixels up to BoundsMaxDim on a side.    *)
(***************************************************************************)
BoundsMaxDim == 3

\* The pixel at (x, y): alpha 0 where the mask bit is off, else 1, 128 or 255
MaskPixel(x, y, on) ==
  <<9, 0, 200, IF ~on THEN 0 ELSE <<1, 128, 255>>[((x + 2 * y) % 3) + 1]>>

MaskRow(w, y, mask) ==
  [k \in 1..(w * 4) |-> MaskPixel((k - 1) \div 4, y, mask[y * w + ((k - 1) \div 4) + 1])[((k - 1) % 4) + 1]]

MaskImage(w, h, mask) ==
  [set |-> TRUE, width |-> w, height |-> h, rows |-> [y \in 1..h |-> MaskRow(w, y - 1, mask)]]

InitBounds ==
  /\ \E w \in 1..BoundsMaxDim, h \in 1..BoundsMaxDim :
       \E mask \in [1..(w * h) -> BOOLEAN] : img = MaskImage(w, h, mask)
  /\ argv = <<"a.png", "b.png">>
  /\ fs = [p \in Paths |-> NoFile]
  /\ pc = "bounds"
  /\ exitCode = -1
  /\ err = ""
  /\ done = <<"decode">>
  /\ src = "a.png"
  /\ dst = "b.png"
  /\ margin = 140
  /\ data = <<>>
  /\ pos = 0
  /\ ihdr = <<>>
  /\ idat = <<>>
  /\ raw = <<>>
  /\ ri = 0
  /\ prev = <<>>
  /\ rows = <<>>
  /\ box = <<>>
  /\ cropped = None
  /\ centered = None

NextBounds == FindBounds \/ CropRows

SpecBounds == InitBounds /\ [][NextBounds]_vars

(***************************************************************************)
(* C2                                                                      *)
(***************************************************************************)
\* The pixels of the decoded image whose alpha byte is above zero
Visible ==
  { xy \in (0..(img.width - 1)) \X (0..(img.height - 1)) :
      img.rows[xy[2] + 1][xy[1] * 4 + 4] > 0 }

\* C2: the box is the smallest inclusive rectangle holding every pixel of
\* alpha > 0 (all of them inside, one of them on each of its four edges), and
\* is (0, 0, width - 1, height - 1) when there is none.
C2_BoundsAreTight ==
  (box # <<>> /\ img.width >= 1 /\ img.height >= 1) =>
    IF Visible = {}
    THEN box = <<0, 0, img.width - 1, img.height - 1>>
    ELSE /\ \A xy \in Visible :
              /\ box[1] <= xy[1] /\ xy[1] <= box[3]
              /\ box[2] <= xy[2] /\ xy[2] <= box[4]
         /\ \E xy \in Visible : xy[1] = box[1]
         /\ \E xy \in Visible : xy[2] = box[2]
         /\ \E xy \in Visible : xy[1] = box[3]
         /\ \E xy \in Visible : xy[2] = box[4]

\* A box strictly inside the image, around pixels that are not all of it
C2_Witness ==
  /\ box # <<>>
  /\ img.width = 3 /\ img.height = 3
  /\ box = <<1, 0, 2, 1>>
  /\ Cardinality(Visible) = 2
  /\ \E xy \in Visible : img.rows[xy[2] + 1][xy[1] * 4 + 4] = 1

(***************************************************************************)
(* The compositor on its own: main from line 204, on contents up to        *)
(* CenterMaxDim on a side and margin ratios on both sides of the clamp.    *)
(***************************************************************************)
CenterMaxDim == 2

CenterMargins == {-1000, -25, 0, 25, 140, 250, 300, 450, 475, 500, 600, 2000}

\* A content whose bytes are all non-zero and differ from place to place
ContentRow(w, y, v) == [k \in 1..(w * 4) |-> ((37 * k + 91 * y + v) % 255) + 1]

InitCenter ==
  /\ \E w \in 1..CenterMaxDim, h \in 1..CenterMaxDim, v \in {0, 100} :
       cropped = [set |-> TRUE, rows |-> [y \in 1..h |-> ContentRow(w, y, v)],
                  cw |-> w, ch |-> h]
  /\ margin \in CenterMargins
  /\ argv = <<"a.png", "b.png">>
  /\ fs = [p \in Paths |-> NoFile]
  /\ pc = "center"
  /\ exitCode = -1
  /\ err = ""
  /\ done = <<"decode", "bounds", "crop">>
  /\ src = "a.png"
  /\ dst = "b.png"
  /\ data = <<>>
  /\ pos = 0
  /\ ihdr = <<>>
  /\ idat = <<>>
  /\ raw = <<>>
  /\ ri = 0
  /\ prev = <<>>
  /\ rows = <<>>
  /\ img = None
  /\ box = <<>>
  /\ centered = None

NextCenter == CenterOnSquare

SpecCenter == InitCenter /\ [][NextCenter]_vars

(***************************************************************************)
(* C3                                                                      *)
(***************************************************************************)
\* C3: the result is canvas rows of canvas * 4 bytes; the content sits at
\* x_off = floor((canvas - content_w) / 2), y_off = floor((canvas - content_h) / 2);
\* every other byte is zero; the borders of an axis differ by at most one,
\* the larger one on the bottom and on the right.
C3_ContentCentered ==
  (centered.set /\ cropped.set /\ cropped.cw >= 1 /\ cropped.ch >= 1) =>
    LET canvas == centered.width
        x_off == (canvas - cropped.cw) \div 2
        y_off == (canvas - cropped.ch) \div 2
        right == canvas - cropped.cw - x_off
        bottom == canvas - cropped.ch - y_off
    IN  /\ centered.height = canvas
        /\ Len(centered.rows) = canvas
        /\ \A r \in 1..canvas : Len(centered.rows[r]) = canvas * 4
        /\ \A r \in 1..canvas : \A k \in 1..(canvas * 4) :
             centered.rows[r][k] =
               IF /\ r - y_off \in 1..cropped.ch
                  /\ k - x_off * 4 \in 1..(cropped.cw * 4)
               THEN cropped.rows[r - y_off][k - x_off * 4]
               ELSE 0
        /\ x_off >= 0 /\ y_off >= 0
        /\ right - x_off \in {0, 1}
        /\ bottom - y_off \in {0, 1}

\* A content that cannot be centred exactly on either axis
C3_Witness ==
  /\ centered.set
  /\ cropped.cw = 2 /\ cropped.ch = 1
  /\ centered.width = 3
  /\ centered.rows[2] = cropped.rows[1] \o <<0, 0, 0, 0>>
  /\ centered.rows[1] = Zeros(12)
  /\ centered.rows[3] = Zeros(12)

(***************************************************************************)
(* C4                                                                      *)
(***************************************************************************)
\* clamp(v, lo, hi) as the claim words it
RefClamp(v, lo, hi) == IF v < lo THEN lo ELSE IF v > hi THEN hi ELSE v

\* The least integer that is at least side / (scale / 1000)
RefCeil(side, scale) == CHOOSE n \in 0..(side * 10 + 1) :
                          /\ n * scale >= side * 1000
                          /\ (n - 1) * scale < side * 1000

RefCanvas(w, h, m) ==
  LET side == IF w >= h THEN w ELSE h
      c == RefCeil(side, RefClamp(1000 - 2 * m, 100, 950))
  IN  IF c >= side THEN c ELSE side

CodecMaxDim == 2

CodecPixels == <<<<0, 0, 0, 0>>, <<255, 128, 7, 200>>>>

CodecRow(w, y, pick) ==
  [k \in 1..(w * 4) |-> CodecPixels[pick[y * w + ((k - 1) \div 4) + 1]][((k - 1) % 4) + 1]]

InitCodec ==
  /\ \E w \in 1..CodecMaxDim, h \in 1..CodecMaxDim :
       \E pick \in [1..(w * h) -> {1, 2}] :
         centered = [set |-> TRUE, width |-> w, height |-> h,
                     rows |-> [y \in 1..h |-> CodecRow(w, y - 1, pick)]]
  /\ argv = <<"a.png", "b.png">>
  /\ fs = [p \in Paths |-> NoFile]
  /\ pc = "write"
  /\ exitCode = -1
  /\ err = ""
  /\ done = <<>>
  /\ src = "a.png"
  /\ dst = "b.png"
  /\ margin = 140
  /\ data = <<>>
  /\ pos = 0
  /\ ihdr = <<>>
  /\ idat = <<>>
  /\ raw = <<>>
  /\ ri = 0
  /\ prev = <<>>
  /\ rows = <<>>
  /\ img = None
  /\ box = <<>>
  /\ cropped = None

\* The round trip's second half begins: the file just written is the one read
Reopen ==
  /\ pc = "print"
  /\ src' = dst
  /\ Continue("read")
  /\ UNCHANGED <<argv, dst, margin, fs, done, decodeVars, resultVars>>

NextCodec ==
  \/ WritePng
  \/ Reopen
  \/ ReadFile
  \/ ReadChunk
  \/ CheckHeader
  \/ ReadScanline
  \/ ReadReturn

SpecCodec == InitCodec /\ [][NextCodec]_vars

(***************************************************************************)
(* C5                                                                      *)
(***************************************************************************)
\* C5: decoding what the encoder wrote never fails, and returns the width,
\* the height and every RGBA byte of the image that was encoded.
C5_RoundTrip ==
  /\ pc # "failed"
  /\ img.set =>
       /\ img.width = centered.width
       /\ img.height = centered.height
       /\ img.rows = centered.rows

\* A two by two image of both pixel values, decoded from its own encoding
C5_Witness ==
  /\ img.set
  /\ fs["b.png"].exists
  /\ data = fs["b.png"].bytes
  /\ img.width = 2 /\ img.height = 2
  /\ img.rows = <<<<0, 0, 0, 0, 255, 128, 7, 200>>, <<255, 128, 7, 200, 0, 0, 0, 0>>>>

(***************************************************************************)
(* The chunks of a byte buffer, read off the PNG layout: length, tag,      *)
(* payload, CRC, from offset 8 up to and including the first IEND.         *)
(***************************************************************************)
\* [tag, length, at] of each chunk whose eight header bytes lie in the buffer
RECURSIVE ChunksFrom(_, _)
ChunksFrom(buf, at) ==
  IF at + 8 > Len(buf) THEN <<>>
  ELSE LET n == buf[at + 1] * 16777216 + buf[at + 2] * 65536 + buf[at + 3] * 256 + buf[at + 4]
           tag == SubSeq(buf, at + 5, at + 8)
       IN  <<[tag |-> tag, length |-> n, at |-> at]>>
           \o (IF tag = TagIEND THEN <<>> ELSE ChunksFrom(buf, at + 12 + n))

Chunks(buf) == ChunksFrom(buf, 8)

\* The offset after the last chunk listed
ChunksEnd(buf) ==
  LET cs == Chunks(buf)
  IN  IF cs = <<>> THEN 8 ELSE cs[Len(cs)].at + 12 + cs[Len(cs)].length

\* Some chunk before IEND has a header, a payload or a CRC past the buffer's end
ChunkOverrun(buf) ==
  LET cs == Chunks(buf)
  IN  \/ \E k \in 1..Len(cs) :
           cs[k].tag # TagIEND /\ cs[k].at + 12 + cs[k].length > Len(buf)
      \/ /\ (cs = <<>> \/ cs[Len(cs)].tag # TagIEND)
         /\ ChunksEnd(buf) < Len(buf)

Decoded == img.set

(***************************************************************************)
(* C6                                                                      *)
(***************************************************************************)
AllStages == <<"decode", "bounds", "crop", "composite", "write">>

C6_State ==
  /\ SubSeq(AllStages, 1, Len(done)) = done
  /\ pc = "failed" => exitCode # 0 /\ exitCode # -1 /\ Len(done) < 5
  /\ pc = "done" => exitCode = 0 /\ done = AllStages
  /\ pc \notin {"failed", "done"} => exitCode = -1

C6_Step ==
  /\ fs' # fs => /\ done = <<"decode", "bounds", "crop", "composite">>
                 /\ done' = AllStages
                 /\ pc' # "failed"
                 /\ \A p \in Paths : p # dst => fs'[p] = fs[p]
  /\ Len(done) = 5 => fs' = fs
  /\ pc = "failed" => UNCHANGED vars
  /\ C6_State'

\* C6: the output file is written at most once, and only when decode, bounds
\* scan, crop and composite have completed; a run that fails ends with a
\* non-zero exit status, executes no later stage and has written no file.
C6_WriteOnlyAfterAllStages == C6_State /\ [][C6_Step]_vars

\* A run that failed in the bounds scan, after the decoder returned, and left
\* no output file
C6_Witness ==
  /\ pc = "failed"
  /\ done = <<"decode">>
  /\ exitCode = 1
  /\ ~fs["b.png"].exists
  /\ dst = "b.png"

(***************************************************************************)
(* C7                                                                      *)
(***************************************************************************)
\* C7: the decoder returns no image when the IHDR it read has a non-zero
\* compression method, filter method or interlace method.
C7_RejectsNonZeroMethods ==
  Decoded => ihdr[5] = 0 /\ ihdr[6] = 0 /\ ihdr[7] = 0

(***************************************************************************)
(* C8                                                                      *)
(***************************************************************************)
\* C8: the decoder returns no image when a chunk before IEND has a header,
\* a declared payload or a CRC that extends past the end of the buffer.
C8_FailsClosed ==
  Decoded => ~ChunkOverrun(data)

(***************************************************************************)
(* C9                                                                      *)
(***************************************************************************)
\* C9: the decoder returns an image only if the stream has exactly one IHDR
\* and no IDAT or IEND chunk comes before it.
C9_SingleLeadingIHDR ==
  Decoded =>
    LET cs == Chunks(data)
        hs == {k \in 1..Len(cs) : cs[k].tag = TagIHDR}
    IN  /\ Cardinality(hs) = 1
        /\ \A k \in hs : \A j \in 1..(k - 1) : cs[j].tag \notin {TagIDAT, TagIEND}

(***************************************************************************)
(* C10                                                                     *)
(***************************************************************************)
\* C10: a returned image has width >= 1, height >= 1, exactly height rows
\* and width * 4 bytes in every row.
C10_ImageBufferInvariant ==
  Decoded =>
    /\ img.width >= 1
    /\ img.height >= 1
    /\ Len(img.rows) = img.height
    /\ \A y \in 1..Len(img.rows) : Len(img.rows[y]) = img.width * 4

====
